---- MODULE Spec2Model ----
(***************************************************************************)
(* Wire-message schema of src/protocol.rs: the serde-derived JSON encoding *)
(* and decoding of ClientMessage / ServerMessage, the integer              *)
(* enumerations, and the two conversions into HintData.                    *)
(*                                                                         *)
(* Rust values are modelled as follows.                                    *)
(*   i32, u16        an integer                                            *)
(*   String          a string                                              *)
(*   bool            a BOOLEAN                                             *)
(*   f32             [fin |-> k] for the finite value k/2, or              *)
(*                   [nonfin |-> "inf"] for an infinity                    *)
(*   Option<T>       None or Some(v)                                       *)
(*   Vec<T>          a sequence                                            *)
(*   HashMap<String,T>  a function from its keys                           *)
(*   struct          a function from its field names                       *)
(*   repr enum       the name of the variant                               *)
(*   tagged enum     [cmd |-> variant name, body |-> the variant's struct] *)
(*   serde_json::Value  a JSON value                                       *)
(* JSON values are tagged records whose payload field is named after the   *)
(* tag, so that two JSON values of different shape are simply unequal.     *)
(***************************************************************************)
EXTENDS Integers, Sequences, FiniteSets, TLC

VARIABLES pc, op, input, wire, out, rewire, important

vars == <<pc, input, op, wire, out, rewire, important>>

(***************************************************************************)
(* Bounds of the model.                                                    *)
(***************************************************************************)
\* Constructed messages take their leaf values from samples 1..NSamples.
NSamples == 3
\* Integer fields of the hint records range over 0..MaxInt.
MaxInt == 1
\* Numbers offered to the integer enumerations range over -1..MaxCode.
MaxCode == 31

\* The largest value of the enumerations' representation type, u16.
U16Max == 65535

(***************************************************************************)
(* JSON values.                                                            *)
(***************************************************************************)
JNull == [t |-> "null"]
JBool(b) == [t |-> "bool", b |-> b]
JInt(n) == [t |-> "int", n |-> n]
JFloat(k) == [t |-> "float", f |-> k]
JStr(s) == [t |-> "str", s |-> s]
JArr(a) == [t |-> "arr", a |-> a]
JObj(o) == [t |-> "obj", o |-> o]

(***************************************************************************)
(* Rust's Option and the Result of a fallible operation.  A panic is the   *)
(* third outcome: it unwinds out of the operation with its message.        *)
(***************************************************************************)
None == [some |-> FALSE]
Some(v) == [some |-> TRUE, v |-> v]

Ok(v) == [ok |-> TRUE, v |-> v]
DeErr == [ok |-> FALSE]

Returned(v) == [tag |-> "ok", v |-> v]
Failed == [tag |-> "err"]
Panicked(msg) == [tag |-> "panic", msg |-> msg]

(***************************************************************************)
(* Type descriptors: what the derive macros see of a field's type.         *)
(***************************************************************************)
TI32 == [k |-> "i32"]
TStr == [k |-> "str"]
TBool == [k |-> "bool"]
TF32 == [k |-> "f32"]
TValue == [k |-> "value"]
TVec(e) == [k |-> "vec", e |-> e]
TMap(e) == [k |-> "map", e |-> e]
TOpt(e) == [k |-> "opt", e |-> e]
TStruct(name, fields) == [k |-> "struct", name |-> name, fields |-> fields]
TRepr(variants) == [k |-> "repr", variants |-> variants]

\* A field, and a field carrying #[serde(skip_serializing_if = "Option::is_none")].
F(name, ty) == [name |-> name, ty |-> ty, skip |-> FALSE]
FSkip(name, ty) == [name |-> name, ty |-> ty, skip |-> TRUE]

\* A variant of a repr enum, and a variant of a tagged enum.
R(name, code) == [name |-> name, code |-> code]
V(name, fields) == [name |-> name, fields |-> fields]

(***************************************************************************)
(* The schema: one definition per type of protocol.rs, fields in declared  *)
(* order under their wire names (r#type is "type" on the wire).            *)
(***************************************************************************)
\* Permission numbered consecutively, as a plain enum would be.
Permission_Consecutive ==
    << R("Disabled", 0), R("Enabled", 1), R("Goal", 2), R("Auto", 3),
       R("AutoEnabled", 4) >>

Permission ==
    << R("Disabled", 0), R("Enabled", 1), R("Goal", 2), R("Auto", 6),
       R("AutoEnabled", 7) >>

SlotType == << R("Spectator", 0), R("Player", 1), R("Group", 2) >>

ClientStatus ==
    << R("ClientUnknown", 0), R("ClientConnected", 5), R("ClientReady", 10),
       R("ClientPlaying", 20), R("ClientGoal", 30) >>

NetworkVersion ==
    << F("major", TI32), F("minor", TI32), F("build", TI32), F("class", TStr) >>

NetworkPlayer ==
    << F("team", TI32), F("slot", TI32), F("alias", TStr), F("name", TStr) >>

NetworkItem ==
    << F("item", TI32), F("location", TI32), F("player", TI32),
       F("flags", TI32) >>

NetworkSlot ==
    << F("name", TStr), F("game", TStr), F("type", TRepr(SlotType)),
       F("group_members", TVec(TI32)) >>

TNetworkVersion == TStruct("NetworkVersion", NetworkVersion)
TNetworkPlayer == TStruct("NetworkPlayer", NetworkPlayer)
TNetworkItem == TStruct("NetworkItem", NetworkItem)

Connect ==
    << F("password", TOpt(TStr)), F("name", TStr),
       F("version", TNetworkVersion), F("items_handling", TOpt(TI32)),
       F("tags", TVec(TStr)), F("uuid", TStr), F("game", TStr),
       F("slot_data", TBool) >>

LocationChecks == << F("locations", TVec(TI32)) >>

LocationScouts == << F("locations", TVec(TI32)), F("create_as_hint", TI32) >>

StatusUpdate == << F("status", TRepr(ClientStatus)) >>

Say == << F("text", TStr) >>

GetDataPackage == << FSkip("games", TOpt(TVec(TStr))) >>

Bounce ==
    << F("games", TOpt(TVec(TStr))), F("slots", TOpt(TVec(TStr))),
       F("tags", TOpt(TVec(TStr))), F("data", TValue) >>

Get == << F("keys", TVec(TStr)) >>

DataStorageOperation == << F("replace", TStr), F("value", TValue) >>

Set ==
    << F("key", TStr), F("default", TValue), F("want_reply", TBool),
       F("operations", TVec(TStruct("DataStorageOperation", DataStorageOperation))) >>

SetNotify == << F("keys", TVec(TStr)) >>

PermissionsMap ==
    << F("release", TRepr(Permission)), F("collect", TRepr(Permission)),
       F("remaining", TRepr(Permission)) >>

RoomInfo ==
    << F("version", TNetworkVersion), F("generator_version", TNetworkVersion),
       F("tags", TVec(TStr)), F("password", TBool),
       F("permissions", TStruct("PermissionsMap", PermissionsMap)),
       F("hint_cost", TI32), F("location_check_points", TI32),
       F("games", TOpt(TVec(TStr))), F("datapackage_checksums", TMap(TStr)),
       F("seed_name", TStr), F("time", TF32) >>

ConnectionRefused == << F("errors", TVec(TStr)) >>

Connected ==
    << F("team", TI32), F("slot", TI32), F("players", TVec(TNetworkPlayer)),
       F("missing_locations", TVec(TI32)), F("checked_locations", TVec(TI32)),
       F("slot_data", TValue),
       F("slot_info", TMap(TStruct("NetworkSlot", NetworkSlot))) >>

ReceivedItems == << F("index", TI32), F("items", TVec(TNetworkItem)) >>

LocationInfo == << F("locations", TVec(TNetworkItem)) >>

RoomUpdate ==
    << F("version", TOpt(TNetworkVersion)), F("tags", TOpt(TVec(TStr))),
       F("password", TOpt(TBool)),
       F("permissions", TOpt(TMap(TRepr(Permission)))),
       F("hint_cost", TOpt(TI32)), F("location_check_points", TOpt(TI32)),
       F("games", TOpt(TVec(TStr))),
       F("datapackage_versions", TOpt(TMap(TI32))),
       F("seed_name", TOpt(TStr)), F("time", TOpt(TF32)),
       F("hint_points", TOpt(TI32)), F("players", TOpt(TVec(TNetworkPlayer))),
       F("checked_locations", TOpt(TVec(TI32))),
       F("missing_locations", TOpt(TVec(TI32))) >>

PrintMsg == << F("text", TStr) >>

JSONMessagePart ==
    << F("type", TOpt(TStr)), F("text", TOpt(TStr)), F("color", TOpt(TStr)),
       F("flags", TOpt(TI32)), F("player", TOpt(TI32)) >>

PrintJSON ==
    << F("data", TVec(TStruct("JSONMessagePart", JSONMessagePart))),
       F("type", TOpt(TStr)), F("receiving", TOpt(TI32)),
       F("item", TOpt(TNetworkItem)), F("found", TOpt(TBool)),
       F("countdown", TOpt(TI32)) >>

GameData ==
    << F("item_name_to_id", TMap(TI32)), F("location_name_to_id", TMap(TI32)) >>

DataPackageObject == << F("games", TMap(TStruct("GameData", GameData))) >>

DataPackage == << F("data", TStruct("DataPackageObject", DataPackageObject)) >>

Bounced ==
    << F("games", TOpt(TVec(TStr))), F("slots", TOpt(TVec(TI32))),
       F("tags", TOpt(TVec(TStr))), F("data", TStruct("Bounce", Bounce)) >>

InvalidPacket ==
    << F("type", TStr), F("original_cmd", TOpt(TStr)), F("text", TStr) >>

Retrieved == << F("keys", TMap(TValue)) >>

SetReply ==
    << F("key", TStr), F("value", TValue), F("original_value", TValue) >>

\* #[serde(tag = "cmd")]: the variant's name travels in this key, beside the
\* variant's own fields.
Tag == "cmd"

ClientMessage ==
    << V("Connect", Connect), V("Sync", << >>),
       V("LocationChecks", LocationChecks), V("LocationScouts", LocationScouts),
       V("StatusUpdate", StatusUpdate), V("Say", Say),
       V("GetDataPackage", GetDataPackage), V("Bounce", Bounce), V("Get", Get),
       V("Set", Set), V("SetNotify", SetNotify) >>

ServerMessage ==
    << V("RoomInfo", RoomInfo), V("ConnectionRefused", ConnectionRefused),
       V("Connected", Connected), V("ReceivedItems", ReceivedItems),
       V("LocationInfo", LocationInfo), V("RoomUpdate", RoomUpdate),
       V("Print", PrintMsg), V("PrintJSON", PrintJSON),
       V("DataPackage", DataPackage), V("Bounced", Bounced),
       V("InvalidPacket", InvalidPacket), V("Retrieved", Retrieved),
       V("SetReply", SetReply) >>

\* pub fn network_version()
network_version ==
    [major |-> 0, minor |-> 5, build |-> 0, class |-> "Version"]

(***************************************************************************)
(* Encoding: #[derive(Serialize)], Serialize_repr and serde_json.          *)
(***************************************************************************)
FieldNames(fields) == { fields[i].name : i \in 1..Len(fields) }

FieldOf(fields, name) ==
    fields[CHOOSE i \in 1..Len(fields) : fields[i].name = name]

\* Serialize_repr writes the variant's discriminant.
SerRepr(variants, name) ==
    JInt(variants[CHOOSE i \in 1..Len(variants) : variants[i].name = name].code)

\* serde_json has no token for a non-finite float and writes null for it.
SerF32(v) == IF "fin" \in DOMAIN v THEN JFloat(v.fin) ELSE JNull

\* A field is left out only under skip_serializing_if = "Option::is_none".
SkipsField(f, v) == f.skip /\ v = None

RECURSIVE Ser(_, _)
RECURSIVE SerFields(_, _)

\* The keys a struct writes, each with its field's encoding.
SerFields(fields, v) ==
    LET kept == { n \in FieldNames(fields) : ~SkipsField(FieldOf(fields, n), v[n]) }
    IN  [n \in kept |-> Ser(FieldOf(fields, n).ty, v[n])]

Ser(T, v) ==
    CASE T.k = "i32" -> JInt(v)
      [] T.k = "str" -> JStr(v)
      [] T.k = "bool" -> JBool(v)
      [] T.k = "f32" -> SerF32(v)
      [] T.k = "value" -> v
      [] T.k = "vec" -> JArr([i \in 1..Len(v) |-> Ser(T.e, v[i])])
      [] T.k = "map" -> JObj([key \in DOMAIN v |-> Ser(T.e, v[key])])
      [] T.k = "opt" -> IF v.some THEN Ser(T.e, v.v) ELSE JNull
      [] T.k = "struct" -> JObj(SerFields(T.fields, v))
      [] T.k = "repr" -> SerRepr(T.variants, v)

VariantOf(variants, name) ==
    variants[CHOOSE i \in 1..Len(variants) : variants[i].name = name]

\* An internally tagged enum writes the tag and the variant's fields side by
\* side in one object.
SerEnum(variants, m) ==
    JObj((Tag :> JStr(m.cmd)) @@ SerFields(VariantOf(variants, m.cmd).fields, m.body))

(***************************************************************************)
(* Decoding: #[derive(Deserialize)], Deserialize_repr and serde_json.      *)
(* Messages arrive as JSON objects; a derived struct ignores keys it does  *)
(* not declare.  Every failure is an Err(serde_json::Error).               *)
(***************************************************************************)
\* Deserialize_repr reads a u16 and accepts the declared discriminants only.
DeRepr(variants, j) ==
    IF j.t = "int" /\ j.n >= 0 /\ j.n <= U16Max
         /\ \E i \in 1..Len(variants) : variants[i].code = j.n
    THEN Ok(variants[CHOOSE i \in 1..Len(variants) : variants[i].code = j.n].name)
    ELSE DeErr

\* A number token is read as f32, an integer token too.  A finite f32 is
\* taken to come back from its shortest decimal form unchanged.
DeF32(j) ==
    CASE j.t = "float" -> Ok([fin |-> j.f])
      [] j.t = "int" -> Ok([fin |-> 2 * j.n])
      [] OTHER -> DeErr

\* Every declared key demanded, an Option field's too.
MissingField_Demanded(ty) == DeErr

\* A key that is not in the object: an Option field is None, any other
\* field is the error `missing field`.
MissingField(ty) == IF ty.k = "opt" THEN Ok(None) ELSE DeErr

RECURSIVE De(_, _)
RECURSIVE DeFields(_, _)

DeFields(fields, o) ==
    LET r == [n \in FieldNames(fields) |->
                 IF n \in DOMAIN o
                 THEN De(FieldOf(fields, n).ty, o[n])
                 ELSE MissingField(FieldOf(fields, n).ty)]
    IN  IF \A n \in DOMAIN r : r[n].ok
        THEN Ok([n \in DOMAIN r |-> r[n].v])
        ELSE DeErr

De(T, j) ==
    CASE T.k = "i32" -> IF j.t = "int" THEN Ok(j.n) ELSE DeErr
      [] T.k = "str" -> IF j.t = "str" THEN Ok(j.s) ELSE DeErr
      [] T.k = "bool" -> IF j.t = "bool" THEN Ok(j.b) ELSE DeErr
      [] T.k = "f32" -> DeF32(j)
      [] T.k = "value" -> Ok(j)
      [] T.k = "vec" ->
           IF j.t # "arr" THEN DeErr
           ELSE LET r == [i \in 1..Len(j.a) |-> De(T.e, j.a[i])]
                IN  IF \A i \in 1..Len(j.a) : r[i].ok
                    THEN Ok([i \in 1..Len(j.a) |-> r[i].v])
                    ELSE DeErr
      [] T.k = "map" ->
           IF j.t # "obj" THEN DeErr
           ELSE LET r == [key \in DOMAIN j.o |-> De(T.e, j.o[key])]
                IN  IF \A key \in DOMAIN j.o : r[key].ok
                    THEN Ok([key \in DOMAIN j.o |-> r[key].v])
                    ELSE DeErr
      [] T.k = "opt" ->
           IF j = JNull THEN Ok(None)
           ELSE LET r == De(T.e, j)
                IN  IF r.ok THEN Ok(Some(r.v)) ELSE DeErr
      [] T.k = "struct" -> IF j.t = "obj" THEN DeFields(T.fields, j.o) ELSE DeErr
      [] T.k = "repr" -> DeRepr(T.variants, j)

\* A decoder whose last variant catches every name it does not know.
DeEnum_CatchAll(variants, j) ==
    IF j.t # "obj" THEN DeErr
    ELSE IF Tag \notin DOMAIN j.o THEN DeErr
    ELSE IF j.o[Tag].t # "str" THEN DeErr
    ELSE LET known == \E i \in 1..Len(variants) : variants[i].name = j.o[Tag].s
             name == IF known THEN j.o[Tag].s ELSE variants[Len(variants)].name
             r == DeFields(VariantOf(variants, name).fields,
                           [key \in DOMAIN j.o \ {Tag} |-> j.o[key]])
         IN  IF r.ok THEN Ok([cmd |-> name, body |-> r.v]) ELSE DeErr

\* The variant is looked up by the string under the tag; the other keys are
\* the variant's fields.
DeEnum(variants, j) ==
    IF j.t # "obj" THEN DeErr
    ELSE IF Tag \notin DOMAIN j.o THEN DeErr
    ELSE IF j.o[Tag].t # "str" THEN DeErr
    ELSE IF \A i \in 1..Len(variants) : variants[i].name # j.o[Tag].s THEN DeErr
    ELSE LET name == j.o[Tag].s
             r == DeFields(VariantOf(variants, name).fields,
                           [key \in DOMAIN j.o \ {Tag} |-> j.o[key]])
         IN  IF r.ok THEN Ok([cmd |-> name, body |-> r.v]) ELSE DeErr

(***************************************************************************)
(* The inputs.  A constructed message is a variant, a set of Option fields *)
(* that are Some (each named by its path from the message), and a sample   *)
(* that fixes every leaf value.                                            *)
(***************************************************************************)
Nothing == [nothing |-> TRUE]

Samples == 1..NSamples

StrOf(s) == IF s % 2 = 1 THEN "a" ELSE "b"

F32Of(s) == IF s % 3 = 0 THEN [nonfin |-> "inf"] ELSE [fin |-> s]

ValueOf(s) ==
    CASE s % 3 = 1 -> JNull
      [] s % 3 = 2 -> JObj("k" :> JInt(s))
      [] OTHER -> JArr(<< JStr("a"), JBool(TRUE) >>)

RECURSIVE OptPaths(_, _)
RECURSIVE FieldOptPaths(_, _)

FieldOptPaths(fields, path) ==
    UNION { OptPaths(fields[i].ty, Append(path, fields[i].name)) : i \in 1..Len(fields) }

OptPaths(T, path) ==
    CASE T.k = "opt" -> {path} \cup OptPaths(T.e, path)
      [] T.k = "vec" -> OptPaths(T.e, path)
      [] T.k = "map" -> OptPaths(T.e, path)
      [] T.k = "struct" -> FieldOptPaths(T.fields, path)
      [] OTHER -> {}

RECURSIVE Gen(_, _, _, _)
RECURSIVE GenFields(_, _, _, _)

GenFields(fields, path, s, mask) ==
    [n \in FieldNames(fields) |-> Gen(FieldOf(fields, n).ty, Append(path, n), s, mask)]

Gen(T, path, s, mask) ==
    CASE T.k = "i32" -> s - 1
      [] T.k = "str" -> StrOf(s)
      [] T.k = "bool" -> (s % 2 = 1)
      [] T.k = "f32" -> F32Of(s)
      [] T.k = "value" -> ValueOf(s)
      [] T.k = "vec" -> [i \in 1..(s % 3) |-> Gen(T.e, path, s, mask)]
      [] T.k = "map" ->
           IF s % 2 = 1 THEN ("k" :> Gen(T.e, path, s, mask)) ELSE << >>
      [] T.k = "opt" ->
           IF path \in mask THEN Some(Gen(T.e, path, s, mask)) ELSE None
      [] T.k = "struct" ->
           IF T.name = "NetworkVersion" /\ s = 1 THEN network_version
           ELSE GenFields(T.fields, path, s, mask)
      [] T.k = "repr" -> T.variants[((s - 1) % Len(T.variants)) + 1].name

VariantsOf(side) == IF side = "client" THEN ClientMessage ELSE ServerMessage

Message(side, i, s, mask) ==
    [cmd |-> VariantsOf(side)[i].name,
     body |-> GenFields(VariantsOf(side)[i].fields, << >>, s, mask)]

\* Whether a value holds a non-finite f32 anywhere.
RECURSIVE HasNonFinite(_, _)
HasNonFinite(T, v) ==
    CASE T.k = "f32" -> "nonfin" \in DOMAIN v
      [] T.k = "vec" -> \E i \in 1..Len(v) : HasNonFinite(T.e, v[i])
      [] T.k = "map" -> \E key \in DOMAIN v : HasNonFinite(T.e, v[key])
      [] T.k = "opt" -> v.some /\ HasNonFinite(T.e, v.v)
      [] T.k = "struct" ->
           \E i \in 1..Len(T.fields) : HasNonFinite(T.fields[i].ty, v[T.fields[i].name])
      [] OTHER -> FALSE

AllCmds ==
    { ClientMessage[i].name : i \in 1..Len(ClientMessage) }
        \cup { ServerMessage[i].name : i \in 1..Len(ServerMessage) }

\* Discriminators a peer may send that no variant is named by.
OtherCmds == { "Bogus", "connect", "" }

\* What a peer may put under the tag: a string, or something else.
PeerTags ==
    { JStr(c) : c \in AllCmds \cup OtherCmds } \cup { JInt(0), JNull }

InitConstructed ==
    /\ \E side \in {"client", "server"} :
         \E i \in 1..Len(VariantsOf(side)) :
           \E s \in Samples :
             \E mask \in SUBSET FieldOptPaths(VariantsOf(side)[i].fields, << >>) :
               input = [kind |-> "message", side |-> side, v |-> Message(side, i, s, mask)]
    /\ pc = "constructed"
    /\ op = "new"
    /\ wire = Nothing
    /\ out = Nothing
    /\ rewire = Nothing
    /\ important = {}

\* A peer's object: the fields of some message, all its Option fields Some or
\* all None, under any tag or under none.
InitReceived ==
    /\ \E side \in {"client", "server"} :
         \E i \in 1..Len(VariantsOf(side)) :
           \E s \in Samples :
             \E mask \in { {}, FieldOptPaths(VariantsOf(side)[i].fields, << >>) } :
               LET m == Message(side, i, s, mask)
                   o == SerFields(VariantsOf(side)[i].fields, m.body)
               IN  \/ \E tag \in PeerTags :
                        /\ input = [kind |-> "peer", fields |-> m.cmd, tag |-> tag]
                        /\ wire = JObj((Tag :> tag) @@ o)
                   \/ /\ input = [kind |-> "peer", fields |-> m.cmd, tag |-> Nothing]
                      /\ wire = JObj(o)
    /\ pc = "received"
    /\ op = "new"
    /\ out = Nothing
    /\ rewire = Nothing
    /\ important = {}

\* A server's RoomUpdate made of some of the fields of a RoomInfo, each under
\* the name and with the value RoomInfo encodes it with; the RoomInfo has a
\* finite time and its games.
InitRoomUpdate ==
    /\ \E s \in Samples :
         \E sent \in SUBSET FieldNames(RoomInfo) :
           LET info == GenFields(RoomInfo, << >>, s, {<< "games" >>})
               o == SerFields(RoomInfo, info)
           IN  /\ ~HasNonFinite(TStruct("RoomInfo", RoomInfo), info)
               /\ input = [kind |-> "diff", info |-> info, sent |-> sent]
               /\ wire = JObj((Tag :> JStr("RoomUpdate")) @@ [n \in sent |-> o[n]])
    /\ pc = "received"
    /\ op = "new"
    /\ out = Nothing
    /\ rewire = Nothing
    /\ important = {}

(***************************************************************************)
(* The operations on messages.                                             *)
(***************************************************************************)
Result(r) == IF r.ok THEN Returned(r.v) ELSE Failed

\* serde_json::to_string(&message)
Encode ==
    /\ pc = "constructed"
    /\ wire' = SerEnum(VariantsOf(input.side), input.v)
    /\ pc' = "onwire"
    /\ op' = "encode"
    /\ UNCHANGED <<input, out, rewire, important>>

\* serde_json::from_str::<ClientMessage>(wire)
DecodeClientMessage ==
    /\ pc \in {"onwire", "received"}
    /\ out' = Result(DeEnum(ClientMessage, wire))
    /\ pc' = "decoded"
    /\ op' = "decode client"
    /\ UNCHANGED <<input, wire, rewire, important>>

\* serde_json::from_str::<ServerMessage>(wire)
DecodeServerMessage ==
    /\ pc \in {"onwire", "received"}
    /\ out' = Result(DeEnum(ServerMessage, wire))
    /\ pc' = "decoded"
    /\ op' = "decode server"
    /\ UNCHANGED <<input, wire, rewire, important>>

\* serde_json::to_string(&decoded)
ReEncode ==
    /\ pc = "decoded"
    /\ out.tag = "ok"
    /\ rewire' = SerEnum(IF op = "decode client" THEN ClientMessage ELSE ServerMessage, out.v)
    /\ pc' = "reencoded"
    /\ UNCHANGED <<op, input, wire, out, important>>

InitCodec == InitConstructed \/ InitReceived \/ InitRoomUpdate

NextCodec == Encode \/ DecodeClientMessage \/ DecodeServerMessage \/ ReEncode

SpecCodec == InitCodec /\ [][NextCodec]_vars

(***************************************************************************)
(* The integer enumerations on their own: a JSON token is offered to each  *)
(* Deserialize_repr, a u16 to ClientStatus::from, and a variant that came  *)
(* out is written back.                                                    *)
(***************************************************************************)
\* impl From<u16> for ClientStatus
ClientStatusFromU16(value) ==
    CASE value = 0 -> Returned("ClientUnknown")
      [] value = 5 -> Returned("ClientConnected")
      [] value = 10 -> Returned("ClientReady")
      [] value = 20 -> Returned("ClientPlaying")
      [] value = 30 -> Returned("ClientGoal")
      [] OTHER -> Panicked("Bad value provided for ClientStatus")

ReprOf(name) ==
    CASE name = "Permission" -> Permission
      [] name = "SlotType" -> SlotType
      [] name = "ClientStatus" -> ClientStatus

Tokens ==
    { JInt(n) : n \in (-1..MaxCode) \cup {U16Max, U16Max + 1} }
        \cup { JStr("Auto"), JFloat(2), JNull }

InitEnum ==
    /\ \E j \in Tokens : input = [kind |-> "token", j |-> j]
    /\ pc = "token"
    /\ op = "new"
    /\ wire = Nothing
    /\ out = Nothing
    /\ rewire = Nothing
    /\ important = {}

Deserialize(name) ==
    /\ pc = "token"
    /\ out' = Result(DeRepr(ReprOf(name), input.j))
    /\ pc' = "decoded"
    /\ op' = name
    /\ UNCHANGED <<input, wire, rewire, important>>

DeserializePermission == Deserialize("Permission")

DeserializeSlotType == Deserialize("SlotType")

DeserializeClientStatus == Deserialize("ClientStatus")

\* ClientStatus::from(value), value: u16
ConvertU16 ==
    /\ pc = "token"
    /\ input.j.t = "int"
    /\ input.j.n >= 0
    /\ input.j.n <= U16Max
    /\ out' = ClientStatusFromU16(input.j.n)
    /\ pc' = IF out'.tag = "panic" THEN "panicked" ELSE "converted"
    /\ op' = "ClientStatus::from"
    /\ UNCHANGED <<input, wire, rewire, important>>

Serialize ==
    /\ pc = "decoded"
    /\ out.tag = "ok"
    /\ rewire' = SerRepr(ReprOf(op), out.v)
    /\ pc' = "reencoded"
    /\ UNCHANGED <<op, input, wire, out, important>>

NextEnum ==
    \/ DeserializePermission
    \/ DeserializeSlotType
    \/ DeserializeClientStatus
    \/ ConvertU16
    \/ Serialize

SpecEnum == InitEnum /\ [][NextEnum]_vars

(***************************************************************************)
(* The conversions into HintData.  crate::utils::is_important is not part  *)
(* of protocol.rs: it is some predicate on the flags, here the membership  *)
(* of the flags in a set that is fixed, arbitrarily, at the start.         *)
(***************************************************************************)
is_important(flags) == flags \in important

\* The conversion with the predicate applied to the item id, not its flags.
HintDataFromPrintJSON_ItemId(value) ==
    IF ~value.item.some
    THEN Panicked("item field is required, but missing from PrintJSON packet")
    ELSE IF ~value.receiving.some
    THEN Panicked("receiving field is required, but missing from PrintJSON packet")
    ELSE IF ~value.found.some
    THEN Panicked("found field is required, but missing from PrintJSON packet")
    ELSE Returned([receiving |-> value.receiving.v,
                   item |-> value.item.v,
                   found |-> value.found.v,
                   is_important |-> is_important(value.item.v.item)])

\* impl From<PrintJSON> for HintData
HintDataFromPrintJSON(value) ==
    IF ~value.item.some
    THEN Panicked("item field is required, but missing from PrintJSON packet")
    ELSE IF ~value.receiving.some
    THEN Panicked("receiving field is required, but missing from PrintJSON packet")
    ELSE IF ~value.found.some
    THEN Panicked("found field is required, but missing from PrintJSON packet")
    ELSE Returned([receiving |-> value.receiving.v,
                   item |-> value.item.v,
                   found |-> value.found.v,
                   is_important |-> is_important(value.item.v.flags)])

\* The conversion with the receiving player as the item's player.
HintDataFromHint_WrongPlayer(value) ==
    Returned([receiving |-> value.receiving_player,
              item |-> [item |-> value.item,
                        location |-> value.location,
                        player |-> value.receiving_player,
                        flags |-> value.item_flags],
              found |-> value.found,
              is_important |-> is_important(value.item_flags)])

\* impl From<Hint> for HintData
HintDataFromHint(value) ==
    Returned([receiving |-> value.receiving_player,
              item |-> [item |-> value.item,
                        location |-> value.location,
                        player |-> value.finding_player,
                        flags |-> value.item_flags],
              found |-> value.found,
              is_important |-> is_important(value.item_flags)])

Ints == 0..MaxInt

Entrances == { "", "cave" }

OptionOf(S) == { None } \cup { Some(v) : v \in S }

NetworkItems == [item : Ints, location : Ints, player : Ints, flags : Ints]

Hints ==
    [receiving_player : Ints, finding_player : Ints, location : Ints,
     item : Ints, found : BOOLEAN, entrance : Entrances, item_flags : Ints]

PrintJSONs ==
    [data : { << >> }, type : { Some("Hint") }, receiving : OptionOf(Ints),
     item : OptionOf(NetworkItems), found : OptionOf(BOOLEAN),
     countdown : { None }]

InitHint ==
    /\ \/ \E h \in Hints : input = [kind |-> "Hint", v |-> h]
       \/ \E p \in PrintJSONs : input = [kind |-> "PrintJSON", v |-> p]
    /\ important \in SUBSET Ints
    /\ pc = "start"
    /\ op = "new"
    /\ wire = Nothing
    /\ out = Nothing
    /\ rewire = Nothing

\* HintData::from(value), value: PrintJSON
ConvertPrintJSON ==
    /\ pc = "start"
    /\ input.kind = "PrintJSON"
    /\ out' = HintDataFromPrintJSON(input.v)
    /\ pc' = IF out'.tag = "panic" THEN "panicked" ELSE "converted"
    /\ op' = "HintData::from PrintJSON"
    /\ UNCHANGED <<input, wire, rewire, important>>

\* HintData::from(value), value: Hint
ConvertHint ==
    /\ pc = "start"
    /\ input.kind = "Hint"
    /\ out' = HintDataFromHint(input.v)
    /\ pc' = IF out'.tag = "panic" THEN "panicked" ELSE "converted"
    /\ op' = "HintData::from Hint"
    /\ UNCHANGED <<input, wire, rewire, important>>

NextHint == ConvertPrintJSON \/ ConvertHint

SpecHint == InitHint /\ [][NextHint]_vars

(***************************************************************************)
(* Helpers of the properties.                                              *)
(***************************************************************************)
\* The type of the body of the message variant of a name.
BodyType(variants, name) == TStruct(name, VariantOf(variants, name).fields)

\* The variants the last decoder chooses among.
Decoding == IF op = "decode client" THEN ClientMessage ELSE ServerMessage

\* The JSON objects standing where the schema has a NetworkVersion.
RECURSIVE WireVersions(_, _)
WireVersions(T, j) ==
    CASE T.k = "struct" ->
           IF T.name = "NetworkVersion" THEN {j}
           ELSE UNION { WireVersions(T.fields[i].ty, j.o[T.fields[i].name]) :
                          i \in { i \in 1..Len(T.fields) : T.fields[i].name \in DOMAIN j.o } }
      [] T.k = "opt" -> IF j = JNull THEN {} ELSE WireVersions(T.e, j)
      [] T.k = "vec" -> UNION { WireVersions(T.e, j.a[i]) : i \in 1..Len(j.a) }
      [] T.k = "map" -> UNION { WireVersions(T.e, j.o[key]) : key \in DOMAIN j.o }
      [] OTHER -> {}

\* The NetworkVersion values held by a value.
RECURSIVE Versions(_, _)
Versions(T, v) ==
    CASE T.k = "struct" ->
           IF T.name = "NetworkVersion" THEN {v}
           ELSE UNION { Versions(T.fields[i].ty, v[T.fields[i].name]) : i \in 1..Len(T.fields) }
      [] T.k = "opt" -> IF v.some THEN Versions(T.e, v.v) ELSE {}
      [] T.k = "vec" -> UNION { Versions(T.e, v[i]) : i \in 1..Len(v) }
      [] T.k = "map" -> UNION { Versions(T.e, v[key]) : key \in DOMAIN v }
      [] OTHER -> {}

\* The flat Hint that says what a PrintJSON with all three fields says.
HintOf(p, entrance) ==
    [receiving_player |-> p.receiving.v, finding_player |-> p.item.v.player,
     location |-> p.item.v.location, item |-> p.item.v.item,
     found |-> p.found.v, entrance |-> entrance, item_flags |-> p.item.v.flags]

\* The PrintJSON that says what a flat Hint says.
PrintJSONOf(h) ==
    [data |-> << >>, type |-> Some("Hint"), receiving |-> Some(h.receiving_player),
     item |-> Some([item |-> h.item, location |-> h.location,
                    player |-> h.finding_player, flags |-> h.item_flags]),
     found |-> Some(h.found), countdown |-> None]

(***************************************************************************)
(* C1.  Converting a PrintJSON whose item, receiving or found is absent    *)
(* ends in an error returned to the caller: no HintData, no panic.         *)
(***************************************************************************)
C1_MissingFieldIsReturnedError ==
    (op = "HintData::from PrintJSON"
       /\ (~input.v.item.some \/ ~input.v.receiving.some \/ ~input.v.found.some))
    => out.tag = "err"

(***************************************************************************)
(* C2.  ClientStatus::from(u16) returns one of the five variants for the   *)
(* codes 0, 5, 10, 20, 30 and an error for any other u16; it never panics. *)
(***************************************************************************)
C2_BadStatusIsReturnedError ==
    op = "ClientStatus::from"
    => /\ out.tag \in {"ok", "err"}
       /\ out.tag = "ok" <=> input.j.n \in {0, 5, 10, 20, 30}

(***************************************************************************)
(* C3.  The encoding of a message has no key for an Option field that is   *)
(* None.                                                                   *)
(***************************************************************************)
C3_AbsentFieldHasNoKey ==
    pc = "onwire"
    => LET fields == VariantOf(VariantsOf(input.side), input.v.cmd).fields
       IN  \A i \in 1..Len(fields) :
             (fields[i].ty.k = "opt" /\ ~input.v.body[fields[i].name].some)
             => fields[i].name \notin DOMAIN wire.o

(***************************************************************************)
(* C4.  A PrintJSON and the flat Hint with the same receiving player, item *)
(* reference and found flag convert to the same HintData, whatever the     *)
(* entrance, and is_important is the flags predicate applied to the flags. *)
(***************************************************************************)
C4_ConvertersAgree ==
    /\ (op = "HintData::from PrintJSON"
          /\ input.v.item.some /\ input.v.receiving.some /\ input.v.found.some)
       => /\ out.tag = "ok"
          /\ \A e \in Entrances : HintDataFromHint(HintOf(input.v, e)) = out
          /\ out.v.is_important = is_important(input.v.item.v.flags)
    /\ op = "HintData::from Hint"
       => /\ out.tag = "ok"
          /\ HintDataFromPrintJSON(PrintJSONOf(input.v)) = out
          /\ out.v.is_important = is_important(input.v.item_flags)

C4_Witness ==
    /\ op = "HintData::from PrintJSON"
    /\ out.tag = "ok"
    /\ out.v.is_important
    /\ out.v.item.item # out.v.item.flags

(***************************************************************************)
(* C5.  As stated: decoding the encoding of any message gives the message  *)
(* back.                                                                   *)
(***************************************************************************)
RoundTripped ==
    /\ input.kind = "message"
    /\ pc = "decoded"
    /\ op = "decode " \o input.side

C5_RoundTrip == RoundTripped => out = Returned(input.v)

(***************************************************************************)
(* C5, amended.  Decoding the encoding of a message whose f32 values are   *)
(* all finite gives the message back, an absent Option field staying       *)
(* absent.                                                                 *)
(***************************************************************************)
C5_RoundTripFinite ==
    (RoundTripped
       /\ ~HasNonFinite(BodyType(VariantsOf(input.side), input.v.cmd), input.v.body))
    => out = Returned(input.v)

C5_Witness ==
    /\ RoundTripped
    /\ input.v.cmd = "RoomUpdate"
    /\ input.v.body.time.some
    /\ input.v.body.players.some
    /\ ~input.v.body.version.some
    /\ out = Returned(input.v)

(***************************************************************************)
(* C6.  A decoder goes by the string under cmd alone: with a well-formed   *)
(* payload each of the 11 client names, or the 13 server names, decodes to *)
(* the variant of that name; anything else under cmd is an error that is   *)
(* returned.                                                               *)
(***************************************************************************)
C6_ClientCmds ==
    { "Connect", "Sync", "LocationChecks", "LocationScouts", "StatusUpdate",
      "Say", "GetDataPackage", "Bounce", "Get", "Set", "SetNotify" }

C6_ServerCmds ==
    { "RoomInfo", "ConnectionRefused", "Connected", "ReceivedItems",
      "LocationInfo", "RoomUpdate", "Print", "PrintJSON", "DataPackage",
      "Bounced", "InvalidPacket", "Retrieved", "SetReply" }

C6_CmdDecides ==
    op \in {"decode client", "decode server"}
    => LET cmds == IF op = "decode client" THEN C6_ClientCmds ELSE C6_ServerCmds
           named == Tag \in DOMAIN wire.o /\ wire.o[Tag].t = "str"
                      /\ wire.o[Tag].s \in cmds
       IN  /\ out.tag \in {"ok", "err"}
           /\ out.tag = "ok" => named /\ out.v.cmd = wire.o[Tag].s
           /\ ~named => out.tag = "err"
           /\ (input.kind = "message" /\ input.v.cmd \in cmds
                 /\ ~HasNonFinite(BodyType(VariantsOf(input.side), input.v.cmd), input.v.body))
              => out.tag = "ok" /\ out.v.cmd = input.v.cmd

C6_Witness ==
    /\ op = "decode server"
    /\ input.kind = "peer"
    /\ input.tag = JStr("Bogus")
    /\ input.fields = "RoomInfo"
    /\ out.tag = "err"

(***************************************************************************)
(* C7.  An integer enumeration accepts exactly its listed codes, each as   *)
(* its named variant, which is written back as the same number; any other  *)
(* token is an error.                                                      *)
(***************************************************************************)
C7_Codes ==
    [Permission |->
       { <<0, "Disabled">>, <<1, "Enabled">>, <<2, "Goal">>, <<6, "Auto">>,
         <<7, "AutoEnabled">> },
     SlotType |-> { <<0, "Spectator">>, <<1, "Player">>, <<2, "Group">> },
     ClientStatus |->
       { <<0, "ClientUnknown">>, <<5, "ClientConnected">>, <<10, "ClientReady">>,
         <<20, "ClientPlaying">>, <<30, "ClientGoal">> }]

C7_EnumCodes ==
    op \in DOMAIN C7_Codes
    => LET listed == { c \in C7_Codes[op] : input.j.t = "int" /\ c[1] = input.j.n }
       IN  IF listed = {}
           THEN out.tag = "err"
           ELSE /\ \A c \in listed : out = Returned(c[2])
                /\ pc = "reencoded" => rewire = input.j

C7_Witness ==
    /\ op = "Permission"
    /\ input.j = JInt(6)
    /\ out = Returned("Auto")
    /\ pc = "reencoded"
    /\ rewire = JInt(6)

(***************************************************************************)
(* C8.  Any subset of the fields of a RoomInfo, sent as a RoomUpdate,      *)
(* decodes to a RoomUpdate with exactly those fields present, under the    *)
(* same names and with the same values, and all others absent.             *)
(***************************************************************************)
C8_RoomInfoFields ==
    { "version", "generator_version", "tags", "password", "permissions",
      "hint_cost", "location_check_points", "games", "datapackage_checksums",
      "seed_name", "time" }

C8_RoomUpdateIsSparseRoomInfo ==
    (input.kind = "diff" /\ op = "decode server")
    => /\ out.tag = "ok"
       /\ out.v.cmd = "RoomUpdate"
       /\ \A n \in C8_RoomInfoFields :
            IF n \notin input.sent
            THEN n \in DOMAIN out.v.body => out.v.body[n] = None
            ELSE /\ n \in DOMAIN out.v.body
                 /\ out.v.body[n] = IF n = "games" THEN input.info[n]
                                    ELSE Some(input.info[n])

(***************************************************************************)
(* C9.  The class of every version descriptor is "Version": of the one     *)
(* network_version() builds, of every one a decoder returns, and of every  *)
(* one written back from a decoded message.                                *)
(***************************************************************************)
C9_ClassIsVersion ==
    /\ network_version.class = "Version"
    /\ (pc = "decoded" /\ out.tag = "ok")
       => \A nv \in Versions(BodyType(Decoding, out.v.cmd), out.v.body) :
            nv.class = "Version"
    /\ pc = "reencoded"
       => \A j \in WireVersions(BodyType(Decoding, out.v.cmd), rewire) :
            j.o["class"] = JStr("Version")

(***************************************************************************)
(* C10.  Converting a flat Hint always succeeds, with receiving =          *)
(* receiving_player, found = found, item = (item, location,                *)
(* finding_player, item_flags) and is_important = the flags predicate of   *)
(* item_flags; the entrance has no effect.                                 *)
(***************************************************************************)
C10_HintConversionExact ==
    op = "HintData::from Hint"
    => /\ out.tag = "ok"
       /\ out.v.receiving = input.v.receiving_player
       /\ out.v.found = input.v.found
       /\ out.v.item = [item |-> input.v.item, location |-> input.v.location,
                        player |-> input.v.finding_player,
                        flags |-> input.v.item_flags]
       /\ out.v.is_important = is_important(input.v.item_flags)
       /\ DOMAIN out.v = {"receiving", "item", "found", "is_important"}
       /\ \A e \in Entrances : HintDataFromHint([input.v EXCEPT !.entrance = e]) = out

C10_Witness ==
    /\ op = "HintData::from Hint"
    /\ out.tag = "ok"
    /\ out.v.is_important
    /\ input.v.entrance = "cave"
    /\ input.v.receiving_player # input.v.finding_player

====
